---------------------------- MODULE Spec2Model ----------------------------
(***************************************************************************)
(* A model of directory-listing-tree.py: the recursive walk over           *)
(* "Index of" listing pages (print_directory_listing), the extraction of   *)
(* one page's rows (fetch_directory_listing), the per-file metadata        *)
(* request (get_file_info) and the helpers they use.                       *)
(*                                                                         *)
(* Text is modelled as a sequence of one-character strings, so that the    *)
(* operations the program performs on text (strip, split, substring test,  *)
(* endswith, code-point comparison, number formatting) are computed and    *)
(* not assumed.  A URL is modelled by its path on the one host the walk    *)
(* talks to; hrefs are path references (no scheme, query or fragment).     *)
(***************************************************************************)
EXTENDS Integers, Sequences, FiniteSets

VARIABLES
    root_url,     \* args.url: the URL the walk starts from
    collect_csv,  \* args.csv
    listing,      \* the page the server holds at ROOT_R (the varying input)
    stack,        \* the frames of print_directory_listing, outermost first
    pc,           \* "fetch" | "loop" | "done" | "raised"
    exception,    \* the exception that left the walk uncaught, or "none"
    output,       \* the lines printed to the console, in order
    fetched,      \* the page requests made by print_directory_listing
    metaFetched,  \* the file requests made by get_file_info
    log,          \* the messages written by logging.error
    returned,     \* the value of every completed print_directory_listing call
    result        \* csv_data as main receives it

vars == <<root_url, collect_csv, listing, stack, pc, exception, output,
          fetched, metaFetched, log, returned, result>>

\* ------------------------------------------------------------------ bounds

\* The largest number of data rows of the varying listing.
MaxRows == 3

\* ------------------------------------------------------------------- text

\* Code points of the characters the model's texts use (Python compares
\* str values code point by code point).
Ord(c) ==
    CASE c = " " -> 32  [] c = "." -> 46  [] c = "/" -> 47
      [] c = "0" -> 48  [] c = "1" -> 49  [] c = "2" -> 50  [] c = "3" -> 51
      [] c = "4" -> 52  [] c = "5" -> 53  [] c = "6" -> 54  [] c = "7" -> 55
      [] c = "8" -> 56  [] c = "9" -> 57
      [] c = "A" -> 65  [] c = "B" -> 66  [] c = "D" -> 68  [] c = "E" -> 69
      [] c = "I" -> 73  [] c = "M" -> 77  [] c = "P" -> 80  [] c = "R" -> 82
      [] c = "X" -> 88
      [] c = "a" -> 97  [] c = "b" -> 98  [] c = "c" -> 99  [] c = "d" -> 100
      [] c = "e" -> 101 [] c = "f" -> 102 [] c = "i" -> 105 [] c = "l" -> 108
      [] c = "n" -> 110 [] c = "o" -> 111 [] c = "p" -> 112 [] c = "r" -> 114
      [] c = "s" -> 115 [] c = "t" -> 116 [] c = "u" -> 117 [] c = "v" -> 118
      [] c = "x" -> 120 [] c = "y" -> 121

\* s < t for Python str values.
RECURSIVE StrLess(_, _)
StrLess(s, t) ==
    IF t = <<>> THEN FALSE
    ELSE IF s = <<>> THEN TRUE
    ELSE IF Ord(Head(s)) # Ord(Head(t)) THEN Ord(Head(s)) < Ord(Head(t))
    ELSE StrLess(Tail(s), Tail(t))

\* str.endswith
EndsWith(s, suffix) ==
    /\ Len(s) >= Len(suffix)
    /\ SubSeq(s, Len(s) - Len(suffix) + 1, Len(s)) = suffix

\* `sub in s`
Contains(s, sub) ==
    \E i \in 1..(Len(s) - Len(sub) + 1) : SubSeq(s, i, i + Len(sub) - 1) = sub

\* get_text(strip=True) on a cell holding one text node: leading and
\* trailing white space removed.
RECURSIVE LStrip(_)
LStrip(s) == IF s # <<>> /\ Head(s) = " " THEN LStrip(Tail(s)) ELSE s

RECURSIVE RStrip(_)
RStrip(s) ==
    IF s # <<>> /\ s[Len(s)] = " " THEN RStrip(SubSeq(s, 1, Len(s) - 1)) ELSE s

Strip(s) == RStrip(LStrip(s))

\* str.split('/')
RECURSIVE Split(_)
Split(s) ==
    IF \A i \in DOMAIN s : s[i] # "/" THEN <<s>>
    ELSE LET k == CHOOSE i \in DOMAIN s :
                      s[i] = "/" /\ \A j \in 1..(i - 1) : s[j] # "/"
         IN  <<SubSeq(s, 1, k - 1)>> \o Split(SubSeq(s, k + 1, Len(s)))

\* '/'.join(parts)
RECURSIVE Join(_)
Join(parts) ==
    IF parts = <<>> THEN <<>>
    ELSE IF Len(parts) = 1 THEN parts[1]
    ELSE parts[1] \o <<"/">> \o Join(Tail(parts))

NonEmpty(seg) == seg # <<>>

\* The dot-segment loop of urllib.parse.urljoin.
RECURSIVE ResolveDots(_, _)
ResolveDots(segments, resolved) ==
    IF segments = <<>> THEN resolved
    ELSE LET seg == Head(segments)
         IN  IF seg = <<".", ".">>
             THEN ResolveDots(Tail(segments),
                              IF resolved = <<>> THEN <<>>
                              ELSE SubSeq(resolved, 1, Len(resolved) - 1))
             ELSE IF seg = <<".">>
             THEN ResolveDots(Tail(segments), resolved)
             ELSE ResolveDots(Tail(segments), Append(resolved, seg))

\* The segments urljoin resolves: the last segment of the base is dropped
\* unless it is empty, a relative reference is appended to what remains and
\* the empty inner segments are filtered out; an absolute path replaces the
\* base path.
BaseParts(bsplit) ==
    IF bsplit[Len(bsplit)] # <<>> THEN SubSeq(bsplit, 1, Len(bsplit) - 1)
    ELSE bsplit

FilterInner(joined) ==
    IF Len(joined) < 3 THEN joined
    ELSE <<joined[1]>>
         \o SelectSeq(SubSeq(joined, 2, Len(joined) - 1), NonEmpty)
         \o <<joined[Len(joined)]>>

Segments(base, url) ==
    IF Head(url) = "/" THEN Split(url)
    ELSE FilterInner(BaseParts(Split(base)) \o Split(url))

\* The resolved path: dot segments resolved, an empty segment added behind a
\* final dot segment.
ResolvedPath(segments) ==
    IF segments[Len(segments)] \in {<<".">>, <<".", ".">>}
    THEN Append(ResolveDots(segments, <<>>), <<>>)
    ELSE ResolveDots(segments, <<>>)

\* urlunparse on a URL with a host: an empty path is "/", and a path is
\* rooted.
Rooted(path) ==
    IF path = <<>> THEN <<"/">>
    ELSE IF Head(path) # "/" THEN <<"/">> \o path
    ELSE path

\* urllib.parse.urljoin(base, url) on the paths of two URLs of one host.
urljoin(base, url) ==
    IF url = <<>> THEN base
    ELSE Rooted(Join(ResolvedPath(Segments(base, url))))

\* ---------------------------------------------------------- number format

Digit(d) ==
    CASE d = 0 -> "0" [] d = 1 -> "1" [] d = 2 -> "2" [] d = 3 -> "3"
      [] d = 4 -> "4" [] d = 5 -> "5" [] d = 6 -> "6" [] d = 7 -> "7"
      [] d = 8 -> "8" [] d = 9 -> "9"

RECURSIVE Decimal(_)
Decimal(n) == IF n < 10 THEN <<Digit(n)>> ELSE Append(Decimal(n \div 10), Digit(n % 10))

\* The divisor of line 52: 1024 * 1024.
BytesPerMB == 1048576

\* f"{size_mb:.3f}" where size_mb = file_size_bytes / (1024 * 1024): the
\* quotient is exact in binary floating point, and the format rounds it to
\* the nearest thousandth, a tie going to the even digit.
Format3f(file_size_bytes) ==
    LET scaled == file_size_bytes * 1000
        q      == scaled \div BytesPerMB
        r      == scaled % BytesPerMB
        t      == IF 2 * r > BytesPerMB \/ (2 * r = BytesPerMB /\ q % 2 = 1)
                  THEN q + 1 ELSE q
        frac   == t % 1000
    IN  Decimal(t \div 1000) \o <<".">>
        \o <<Digit(frac \div 100), Digit((frac \div 10) % 10), Digit(frac % 10)>>

\* ------------------------------------------------------------- the server

\* A table row of a page: the number of its td cells, the text of the second
\* cell, whether that cell holds an anchor, the anchor's href, and the text
\* of the third cell.
Row(tds, text, a, href, modified) ==
    [tds |-> tds, text |-> text, a |-> a, href |-> href, modified |-> modified]

\* A header row of the listing format: th cells only.
HeaderRow == Row(0, <<>>, FALSE, <<>>, "")

Page(has_title, title, rows) ==
    [has_title |-> has_title, title |-> title, rows |-> rows]

ROOT_R == <<"/", "r", "/">>
ROOT_T == <<"/", "t", "/">>

IndexOfR == <<"I", "n", "d", "e", "x", " ", "o", "f", " ", "/", "r">>
IndexOfT == <<"I", "n", "d", "e", "x", " ", "o", "f", " ", "/", "t">>

RowSub      == Row(5, <<"s", "u", "b", "/">>, TRUE, <<"s", "u", "b", "/">>, "2023-12-01 10:00")
RowDocs     == Row(5, <<"D", "o", "c", "s">>, TRUE, <<"f", "i", "l", "e", "s", "/">>, "2023-12-02 10:00")
RowDotted   == Row(5, <<"v", "1", ".", "2", "/">>, TRUE, <<"v", "1", ".", "2", "/">>, "2023-12-04 10:00")
RowA        == Row(4, <<"a", ".", "t", "x", "t">>, TRUE, <<"a", ".", "t", "x", "t">>, "2023-12-05 10:00")
RowB        == Row(5, <<"B", ".", "t", "x", "t">>, TRUE, <<"B", ".", "t", "x", "t">>, "2023-12-06 10:00")
RowReadme   == Row(5, <<"R", "E", "A", "D", "M", "E">>, TRUE, <<"R", "E", "A", "D", "M", "E">>, "2023-12-07 10:00")
RowParent   == Row(5, <<" ", "P", "a", "r", "e", "n", "t", " ", "D", "i", "r", "e", "c", "t", "o", "r", "y">>, TRUE, <<"/">>, "")

\* Rows that are no data rows: the rule that ends a listing (one th cell), and
\* a row of three cells.
RuleRow     == Row(0, <<>>, FALSE, <<>>, "")
RowThree    == Row(3, <<"c", ".", "t", "x", "t">>, TRUE, <<"c", ".", "t", "x", "t">>, "2023-12-08 10:00")
RowNoLink   == Row(4, <<"n", "o", "t", "e">>, FALSE, <<>>, "")

\* The data rows the varying listing is made of.
RowPool ==
    {RowSub, RowDocs, RowDotted, RowA, RowB, RowReadme, RowParent, RowNoLink}

RECURSIVE SeqsUpTo(_, _)
SeqsUpTo(S, n) ==
    IF n = 0 THEN {<<>>}
    ELSE LET shorter == SeqsUpTo(S, n - 1)
         IN  shorter \cup {Append(s, x) : s \in shorter, x \in S}

\* The pages the server may hold at ROOT_R: listings of up to MaxRows data
\* rows below the two header rows, tables of fewer than three rows, and pages
\* that are no listing (no title, or a title without "Index of").
ListingPages ==
    {Page(TRUE, IndexOfR, <<HeaderRow, HeaderRow>> \o d) : d \in SeqsUpTo(RowPool, MaxRows)}

ShortPages ==
    {Page(TRUE, IndexOfR, r) : r \in SeqsUpTo({HeaderRow, RowA}, 2)}

OtherTitles ==
    {<<"i", "n", "d", "e", "x", " ", "o", "f", " ", "/", "r">>, <<"4", "0", "4">>, <<"I", "n", "d", "e", "x">>, <<"I", "n", "d", "e", "x", " ", " ", "o", "f">>}

OtherPages ==
    {Page(TRUE, t, <<HeaderRow, HeaderRow, RowSub, RowA>>) : t \in OtherTitles}
    \cup {Page(FALSE, <<>>, <<HeaderRow, HeaderRow, RowSub, RowA>>),
          Page(TRUE, <<"X", " ", "I", "n", "d", "e", "x", " ", "o", "f">>, <<HeaderRow, HeaderRow, RowSub, RowA>>)}

RootPages == ListingPages \cup ShortPages \cup OtherPages

File(name) == Row(5, name, TRUE, name, "2023-11-11 11:11")
Dir(name)  == Row(5, name, TRUE, name, "2023-11-12 12:12")

\* The pages the server holds below the two roots (fixed).
FixedPaths ==
    {<<"/", "r", "/", "s", "u", "b", "/">>, <<"/", "r", "/", "f", "i", "l", "e", "s", "/">>, <<"/", "r", "/", "v", "1", ".", "2", "/">>,
     <<"/", "t", "/">>, <<"/", "t", "/", "a", "/">>, <<"/", "t", "/", "b", "/">>, <<"/", "t", "/", "b", "/", "x", "/">>, <<"/", "t", "/", "c", "/">>}

FixedSite(path) ==
    CASE path = <<"/", "r", "/", "s", "u", "b", "/">> ->
            Page(TRUE, <<"I", "n", "d", "e", "x", " ", "o", "f", " ", "/", "r", "/", "s", "u", "b">>,
                 <<HeaderRow, HeaderRow, RowParent, File(<<"s", ".", "t", "x", "t">>), RuleRow>>)
      [] path = <<"/", "r", "/", "f", "i", "l", "e", "s", "/">> ->
            Page(TRUE, <<"I", "n", "d", "e", "x", " ", "o", "f", " ", "/", "r", "/", "f", "i", "l", "e", "s">>,
                 <<HeaderRow, HeaderRow, RowParent, File(<<"f", ".", "p", "d", "f">>), RuleRow>>)
      [] path = <<"/", "r", "/", "v", "1", ".", "2", "/">> ->
            Page(TRUE, <<"i", "n", "d", "e", "x", " ", "o", "f", " ", "/", "r", "/", "v", "1", ".", "2">>,
                 <<HeaderRow, HeaderRow, RowParent, File(<<"o", ".", "t", "x", "t">>), RuleRow>>)
      [] path = <<"/", "t", "/">> ->
            Page(TRUE, IndexOfT,
                 <<HeaderRow, HeaderRow, RowParent, Dir(<<"b", "/">>), File(<<"t", "2", ".", "t", "x", "t">>),
                   Dir(<<"a", "/">>), RowThree, Dir(<<"c", "/">>), File(<<"t", "1", ".", "t", "x", "t">>), RuleRow>>)
      [] path = <<"/", "t", "/", "a", "/">> ->
            Page(TRUE, <<"I", "n", "d", "e", "x", " ", "o", "f", " ", "/", "t", "/", "a">>,
                 <<HeaderRow, HeaderRow, RowParent, File(<<"a", "1", ".", "t", "x", "t">>), RuleRow>>)
      [] path = <<"/", "t", "/", "b", "/">> ->
            Page(TRUE, <<"I", "n", "d", "e", "x", " ", "o", "f", " ", "/", "t", "/", "b">>,
                 <<HeaderRow, HeaderRow, RowParent, File(<<"b", "1", ".", "t", "x", "t">>), Dir(<<"x", "/">>), RuleRow>>)
      [] path = <<"/", "t", "/", "b", "/", "x", "/">> ->
            Page(TRUE, <<"I", "n", "d", "e", "x", " ", "o", "f", " ", "/", "t", "/", "b", "/", "x">>,
                 <<HeaderRow, HeaderRow, File(<<"d", "e", "e", "p", ".", "b", "i", "n">>), RowParent, RuleRow>>)
      [] path = <<"/", "t", "/", "c", "/">> ->
            Page(TRUE, <<"I", "n", "d", "e", "x", " ", "o", "f", " ", "/", "t", "/", "c">>,
                 <<HeaderRow, HeaderRow, RowParent, File(<<"c", "2", ".", "t", "x", "t">>), File(<<"c", "1", ".", "t", "x", "t">>), RuleRow>>)

\* Whether the server answers a GET of `path` with a page (2xx); any other
\* path is answered 404, which raise_for_status turns into an HTTPError.
HasPage(path) == path = ROOT_R \/ path \in FixedPaths

Site(path) == IF path = ROOT_R THEN listing ELSE FixedSite(path)

\* The response headers of a file: Content-Length (or none) and
\* Last-Modified ("" when the header is absent).
Headers(file_url) ==
    CASE file_url = <<"/", "r", "/", "a", ".", "t", "x", "t">> ->
            [has_length |-> TRUE, length |-> 2097152,
             last_modified |-> "Sun, 01 Jan 2023 00:00:00 GMT"]
      [] file_url = <<"/", "r", "/", "B", ".", "t", "x", "t">> ->
            [has_length |-> FALSE, length |-> 0,
             last_modified |-> "yesterday"]
      [] file_url = <<"/", "r", "/", "R", "E", "A", "D", "M", "E">> ->
            [has_length |-> TRUE, length |-> 65536, last_modified |-> ""]
      [] OTHER ->
            [has_length |-> TRUE, length |-> 1500,
             last_modified |-> "Thu, 21 Dec 2023 10:00:00 GMT"]

\* --------------------------------------------------------------- the code

ParentDirectory == <<"P", "a", "r", "e", "n", "t", " ", "D", "i", "r", "e", "c", "t", "o", "r", "y">>
IndexOf         == <<"I", "n", "d", "e", "x", " ", "o", "f">>

\* A variant of is_directory that looks for a period in what follows the
\* last slash instead of looking for a final slash.
is_directory_by_period(url) ==
    \A k \in DOMAIN Split(url)[Len(Split(url))] :
        Split(url)[Len(Split(url))][k] # "."

\* is_directory(url)
is_directory(url) == EndsWith(url, <<"/">>)

\* A variant of the test of line 88 that skips nothing.
IsParentDirectoryNever(name) == FALSE

\* The test of line 88.
IsParentDirectory(name) == name = ParentDirectory

\* The test of line 86.
IsDataRow(row) == row.tds > 3

\* The name of a row, line 87.
NameOf(row) == Strip(row.text)

\* The Last-Modified header as get_file_info reports it (lines 54-62): the
\* HTTP date reformatted as YYYY.MM.DD, "Unknown Date" for a value strptime
\* rejects, "Not Available" for a missing or empty header.
FormatLastModified(last_modified) ==
    CASE last_modified = "" -> "Not Available"
      [] last_modified = "Sun, 01 Jan 2023 00:00:00 GMT" -> "2023.01.01"
      [] last_modified = "Thu, 21 Dec 2023 10:00:00 GMT" -> "2023.12.21"
      [] OTHER -> "Unknown Date"

\* get_file_info(file_url), the requests of `failing` raising a
\* RequestException: the pair it returns (size_mb kept as the byte count it
\* is computed from; is_na marks the pair ('N/A', 'N/A')).
get_file_info(file_url, failing) ==
    IF file_url \in failing
    THEN [is_na |-> TRUE, file_size_bytes |-> 0, last_modified |-> "N/A"]
    ELSE LET h == Headers(file_url)
         IN  [is_na |-> FALSE,
              file_size_bytes |-> IF h.has_length THEN h.length ELSE 0,
              last_modified |-> FormatLastModified(h.last_modified)]

\* The state of fetch_directory_listing between two rows.
NoRows ==
    [items |-> <<>>, csv_data |-> <<>>, requests |-> <<>>, raised |-> "none"]

\* Lines 102-103: the item of a directory.  An item also keeps the entry's
\* full_url, which the program drops.
DirectoryEntry(acc, name, full_url, last_modified) ==
    [acc EXCEPT !.items = Append(@,
        [is_dir |-> TRUE, name |-> name, size |-> <<>>,
         last_modified |-> last_modified, url |-> full_url])]

\* Lines 96-100: the item and the CSV row of a file.  Formatting 'N/A' with
\* .3f raises ValueError.
FileEntry(acc, name, full_url, info, collect) ==
    IF info.is_na
    THEN [acc EXCEPT
             !.requests = Append(@, [url |-> full_url, name |-> name, failed |-> TRUE]),
             !.raised = "ValueError"]
    ELSE [acc EXCEPT
             !.requests = Append(@, [url |-> full_url, name |-> name, failed |-> FALSE]),
             !.items = Append(@,
                 [is_dir |-> FALSE, name |-> name,
                  size |-> Format3f(info.file_size_bytes),
                  last_modified |-> info.last_modified, url |-> full_url]),
             !.csv_data = IF collect
                          THEN Append(@,
                              [name |-> name, url |-> full_url,
                               size |-> Format3f(info.file_size_bytes),
                               last_modified |-> info.last_modified])
                          ELSE @]

\* Lines 91-103, for a row that is kept: subscripting the None that find('a')
\* returns raises TypeError.
Entry(acc, name, full_url, row, collect, failing) ==
    IF is_directory(full_url)
    THEN DirectoryEntry(acc, name, full_url, row.modified)
    ELSE FileEntry(acc, name, full_url, get_file_info(full_url, failing), collect)

\* One iteration of the loop of fetch_directory_listing (lines 85-103).
ExtractRow(acc, url, row, collect, failing) ==
    IF ~IsDataRow(row) THEN acc
    ELSE IF IsParentDirectory(NameOf(row)) THEN acc
    ELSE IF ~row.a THEN [acc EXCEPT !.raised = "TypeError"]
    ELSE Entry(acc, NameOf(row), urljoin(url, row.href), row, collect, failing)

RECURSIVE ExtractRows(_, _, _, _, _)
ExtractRows(acc, url, rows, collect, failing) ==
    IF rows = <<>> \/ acc.raised # "none" THEN acc
    ELSE ExtractRows(ExtractRow(acc, url, Head(rows), collect, failing),
                     url, Tail(rows), collect, failing)

\* rows[2:]
DataRows(rows) == SubSeq(rows, 3, Len(rows))

\* fetch_directory_listing(url, soup, collect_csv)
fetch_directory_listing(url, soup, collect, failing) ==
    ExtractRows(NoRows, url, DataRows(soup.rows), collect, failing)

\* A variant of the test of line 119 that ignores the case of the first
\* letter.
IsListingPageAnyCase(soup) ==
    soup.has_title /\ Contains(soup.title, Tail(IndexOf))

\* The test of line 119.
IsListingPage(soup) == soup.has_title /\ Contains(soup.title, IndexOf)

\* A variant of the sort key that is the name alone.
KeyLessByName(x, y) == StrLess(x.name, y.name)

\* The sort key of line 121, (not x[0], x[1]), compared as Python compares
\* tuples.
KeyLess(x, y) ==
    \/ x.is_dir /\ ~y.is_dir
    \/ x.is_dir = y.is_dir /\ StrLess(x.name, y.name)

\* list.sort is stable: an item goes behind the items whose key is not
\* greater than its own.
Insert(sorted, x) ==
    LET before == {i \in DOMAIN sorted : ~KeyLess(x, sorted[i])}
        k      == IF \A i \in DOMAIN sorted : KeyLess(x, sorted[i]) THEN 0
                  ELSE CHOOSE i \in before : \A j \in before : j <= i
    IN  SubSeq(sorted, 1, k) \o <<x>> \o SubSeq(sorted, k + 1, Len(sorted))

RECURSIVE SortFrom(_, _)
SortFrom(items, sorted) ==
    IF items = <<>> THEN sorted
    ELSE SortFrom(Tail(items), Insert(sorted, Head(items)))

\* items.sort(key=lambda x: (not x[0], x[1]))
Sort(items) == SortFrom(items, <<>>)

\* next_url of line 126
next_url(url, name) == urljoin(url, name \o <<"/">>)

\* A variant of line 128 that assigns instead of extending.
ExtendReplacing(csv_data, more_csv_data) == more_csv_data

\* csv_data.extend(more_csv_data), line 128
Extend(csv_data, more_csv_data) == csv_data \o more_csv_data

\* A variant of line 132 that adds the listing's own rows twice.
ReturnValueDoubled(csv_data, child_csv_data) ==
    csv_data \o child_csv_data \o child_csv_data

\* csv_data after line 132, the value line 139 returns
ReturnValue(csv_data, child_csv_data) == csv_data \o child_csv_data

\* ------------------------------------------------------------- the walk

\* A frame of print_directory_listing: `call` numbers the calls in the order
\* they are made, `indent` counts the four-space units of the indent string,
\* `i` is the position of the for loop of line 123, `out_from` the number of
\* lines printed before the call began.
Frame(call, url, indent, via, entry_url, out_from) ==
    [call |-> call, url |-> url, indent |-> indent, via |-> via,
     entry_url |-> entry_url, items |-> <<>>, i |-> 1, csv_data |-> <<>>,
     child_csv_data |-> <<>>, out_from |-> out_from]

Top == stack[Len(stack)]

\* The files of a page whose metadata get_file_info may be asked for.
FileURLs(url, soup) ==
    {urljoin(url, soup.rows[k].href) :
        k \in {j \in DOMAIN soup.rows : j > 2 /\ soup.rows[j].a}}

\* main calls print_directory_listing(args.url, collect_csv=args.csv).
Init ==
    /\ \/ root_url = ROOT_R /\ listing \in RootPages
       \/ root_url = ROOT_T /\ listing = Page(TRUE, IndexOfR, <<>>)
    /\ collect_csv \in BOOLEAN
    /\ stack = <<Frame(1, root_url, 0, <<>>, root_url, 0)>>
    /\ pc = "fetch"
    /\ exception = "none"
    /\ output = <<>>
    /\ fetched = <<>>
    /\ metaFetched = <<>>
    /\ log = <<>>
    /\ returned = <<>>
    /\ result = <<>>

\* The event a call's page request leaves in `fetched`.
Fetch(f, outcome) ==
    [call |-> f.call, url |-> f.url, outcome |-> outcome, via |-> f.via,
     entry_url |-> f.entry_url]

\* `return csv_data` (line 139) with csv_data = value: the frame is popped
\* and the caller goes on after line 127, extending its csv_data (line 128);
\* the outermost call hands the value to main.
ReturnToCaller(value, out) ==
    /\ returned' = Append(returned,
          [call |-> Top.call, url |-> Top.url, value |-> value,
           out_from |-> Top.out_from, out_to |-> Len(out)])
    /\ IF Len(stack) = 1
       THEN /\ stack' = <<>>
            /\ pc' = "done"
            /\ result' = value
       ELSE /\ stack' = [SubSeq(stack, 1, Len(stack) - 1) EXCEPT
                            ![Len(stack) - 1].csv_data = Extend(@, value),
                            ![Len(stack) - 1].i = @ + 1]
            /\ pc' = "loop"
            /\ UNCHANGED result

\* Lines 115-116 raise a RequestException (a transport failure, possible for
\* any URL, or the HTTPError of a URL the server has no page for); the handler
\* of line 136 logs it and the call returns its empty csv_data.
FetchFails ==
    /\ pc = "fetch"
    /\ fetched' = Append(fetched, Fetch(Top, "error"))
    /\ log' = Append(log, Top.url)
    /\ ReturnToCaller(<<>>, output)
    /\ UNCHANGED <<root_url, collect_csv, listing, exception, output, metaFetched>>

\* The page is served and line 119 finds it is no listing: line 134 prints
\* the notice and the call returns its empty csv_data.
NotAListing ==
    /\ pc = "fetch"
    /\ HasPage(Top.url)
    /\ ~IsListingPage(Site(Top.url))
    /\ fetched' = Append(fetched, Fetch(Top, "skip"))
    /\ output' = Append(output,
          [call |-> Top.call, kind |-> "skip", indent |-> Top.indent,
           text |-> Top.url])
    /\ ReturnToCaller(<<>>, output')
    /\ UNCHANGED <<root_url, collect_csv, listing, exception, metaFetched, log>>

\* The page is served and is a listing: lines 120-121 extract and sort its
\* entries, the metadata requests of `failing` raising a RequestException.
OpenListing ==
    /\ pc = "fetch"
    /\ HasPage(Top.url)
    /\ IsListingPage(Site(Top.url))
    /\ \E failing \in SUBSET FileURLs(Top.url, Site(Top.url)) :
          \E got \in {fetch_directory_listing(Top.url, Site(Top.url), collect_csv, failing)} :
              /\ got.raised = "none"
              /\ metaFetched' = metaFetched \o got.requests
              /\ stack' = [stack EXCEPT
                              ![Len(stack)].items = Sort(got.items),
                              ![Len(stack)].child_csv_data = got.csv_data]
    /\ fetched' = Append(fetched, Fetch(Top, "listing"))
    /\ pc' = "loop"
    /\ UNCHANGED <<root_url, collect_csv, listing, exception, output, log, returned, result>>

\* The URLs get_file_info logs an error for (line 67).
FailedURLs(requests) ==
    SelectSeq([k \in DOMAIN requests |->
                  IF requests[k].failed THEN requests[k].url ELSE <<>>],
              NonEmpty)

\* As OpenListing, but fetch_directory_listing raises an exception that is
\* no RequestException: neither its handler (line 105) nor the handler of
\* print_directory_listing (line 136) catches it, every frame is left and the
\* exception reaches main.
ExtractionRaises ==
    /\ pc = "fetch"
    /\ HasPage(Top.url)
    /\ IsListingPage(Site(Top.url))
    /\ \E failing \in SUBSET FileURLs(Top.url, Site(Top.url)) :
          \E got \in {fetch_directory_listing(Top.url, Site(Top.url), collect_csv, failing)} :
              /\ got.raised # "none"
              /\ metaFetched' = metaFetched \o got.requests
              /\ log' = log \o FailedURLs(got.requests)
              /\ exception' = got.raised
    /\ fetched' = Append(fetched, Fetch(Top, "raised"))
    /\ stack' = <<>>
    /\ pc' = "raised"
    /\ UNCHANGED <<root_url, collect_csv, listing, output, returned, result>>

\* One iteration of the loop of line 123 on a directory: line 125 prints it
\* and line 127 calls print_directory_listing on next_url.
PrintDirectory ==
    /\ pc = "loop"
    /\ Top.i <= Len(Top.items)
    /\ Top.items[Top.i].is_dir
    /\ LET item == Top.items[Top.i]
       IN  /\ output' = Append(output,
                 [call |-> Top.call, kind |-> "dir", indent |-> Top.indent,
                  text |-> item.name])
           /\ stack' = Append(stack,
                 Frame(Len(fetched) + 1, next_url(Top.url, item.name),
                       Top.indent + 1, item.name, item.url, Len(output')))
    /\ pc' = "fetch"
    /\ UNCHANGED <<root_url, collect_csv, listing, exception, fetched,
                   metaFetched, log, returned, result>>

\* One iteration of the loop of line 123 on a file: line 130 prints it.
PrintFile ==
    /\ pc = "loop"
    /\ Top.i <= Len(Top.items)
    /\ ~Top.items[Top.i].is_dir
    /\ output' = Append(output,
          [call |-> Top.call, kind |-> "file", indent |-> Top.indent,
           text |-> Top.items[Top.i].name])
    /\ stack' = [stack EXCEPT ![Len(stack)].i = @ + 1]
    /\ UNCHANGED <<root_url, collect_csv, listing, pc, exception, fetched,
                   metaFetched, log, returned, result>>

\* The loop is over: line 132 adds the listing's own rows and line 139
\* returns.
Return ==
    /\ pc = "loop"
    /\ Top.i > Len(Top.items)
    /\ ReturnToCaller(ReturnValue(Top.csv_data, Top.child_csv_data), output)
    /\ UNCHANGED <<root_url, collect_csv, listing, exception, output, fetched,
                   metaFetched, log>>

Next ==
    \/ FetchFails
    \/ NotAListing
    \/ OpenListing
    \/ ExtractionRaises
    \/ PrintDirectory
    \/ PrintFile
    \/ Return

Spec == Init /\ [][Next]_vars

\* ------------------------------------------------- what the claims speak of

Count(seq, x) == Cardinality({k \in DOMAIN seq : seq[k] = x})

Range(seq) == {seq[k] : k \in DOMAIN seq}

\* The frames' items, wherever they are in the walk.
AllItems == UNION {Range(stack[d].items) : d \in DOMAIN stack}

\* Every CSV row the walk holds or has returned.
AllRows ==
    Range(result)
    \cup UNION {Range(returned[k].value) : k \in DOMAIN returned}
    \cup UNION {Range(stack[d].csv_data) \cup Range(stack[d].child_csv_data) :
                   d \in DOMAIN stack}

\* The pages whose request raised a RequestException.
FailedPages == {fetched[k].url : k \in {j \in DOMAIN fetched : fetched[j].outcome = "error"}}

\* The listing at `url` as the server holds it: its entries and rows when no
\* request fails.
Served(url) == fetch_directory_listing(url, Site(url), TRUE, {})

IsListingAt(url) == HasPage(url) /\ IsListingPage(Site(url))

\* The rows and the subdirectory URLs of the page at `url`, none when its
\* request failed or it is no listing.
OwnRows(url) ==
    IF url \notin FailedPages /\ IsListingAt(url) THEN Served(url).csv_data
    ELSE <<>>

Subdirectories(url) ==
    IF url \notin FailedPages /\ IsListingAt(url)
    THEN {next_url(url, it.name) : it \in {x \in Range(Served(url).items) : x.is_dir}}
    ELSE {}

\* The URLs of the subtree below `urls`: `seen` and what the listings of
\* `new` lead to.
RECURSIVE Below(_, _)
Below(seen, new) ==
    IF new = {} THEN seen
    ELSE Below(seen \cup new, UNION {Subdirectories(u) : u \in new} \ (seen \cup new))

Subtree(url) == Below({}, {url})

\* The site below the root is a tree: the subdirectories of a listing are
\* distinct URLs (no two entries lead to one listing).
IsTree ==
    \A u \in Subtree(root_url) :
        IsListingAt(u) =>
            LET items == Served(u).items
            IN  \A i, j \in DOMAIN items :
                    (i # j /\ items[i].is_dir /\ items[j].is_dir)
                    => next_url(u, items[i].name) # next_url(u, items[j].name)

\* The file entries of the listings `urls`, each with its row.
Entries(urls) ==
    UNION {{<<u, k, OwnRows(u)[k]>> : k \in DOMAIN OwnRows(u)} : u \in urls}

\* `rows` holds one row for each of `entries` and nothing else.
OneRowEach(rows, entries) ==
    \A x \in Range(rows) \cup {e[3] : e \in entries} :
        Count(rows, x) = Cardinality({e \in entries : e[3] = x})

\* The rows of the files discovered in the subtree below `url`.
Discovered(url) == Entries(Subtree(url))

\* The lines a call printed for its own entries.
PrintedBy(call) ==
    LET own(line) == line.call = call /\ line.kind # "skip"
    IN  SelectSeq(output, own)

\* s <= t in code-point order, stated on the first position the two differ in.
NameLeq(s, t) ==
    \/ Len(s) <= Len(t) /\ SubSeq(t, 1, Len(s)) = s
    \/ \E k \in 1..Len(s) :
          /\ k <= Len(t)
          /\ SubSeq(s, 1, k - 1) = SubSeq(t, 1, k - 1)
          /\ Ord(s[k]) < Ord(t[k])

\* Directories first, then names ascending, on lines and on items.
LinesInOrder(lines) ==
    \A i, j \in DOMAIN lines :
        i < j =>
            /\ ~(lines[i].kind = "file" /\ lines[j].kind = "dir")
            /\ lines[i].kind = lines[j].kind => NameLeq(lines[i].text, lines[j].text)

ItemsInOrder(items) ==
    \A i, j \in DOMAIN items :
        i < j =>
            /\ ~(~items[i].is_dir /\ items[j].is_dir)
            /\ items[i].is_dir = items[j].is_dir => NameLeq(items[i].name, items[j].name)

\* The final segment of a path: what follows its last slash.
FinalSegment(url) == Split(url)[Len(Split(url))]

HasPeriod(s) == \E k \in DOMAIN s : s[k] = "."

\* ------------------------------------------------------------- the claims

\* C1 (as claimed): a metadata request that fails at the request level is
\* not propagated: the walk does not end in an uncaught exception because
\* of it, and get_file_info's ('N/A', 'N/A') entry does not stop the listing.
C1_MetadataFailureContained ==
    \A k \in DOMAIN metaFetched :
        metaFetched[k].failed => pc # "raised" /\ exception = "none"

\* C2: when the walk of a tree of listings returns with CSV collection on,
\* the result holds every row of every listing whose request did not fail,
\* each as often as it was discovered, whichever subdirectory requests
\* failed; every subdirectory of a listing that was read is requested and
\* printed; and no RequestException leaves the walk.
C2_FailedSubtreeOnlyLosesItsRows ==
    /\ exception # "RequestException"
    /\ (pc = "done" /\ collect_csv /\ IsTree) =>
          /\ LET entries == Discovered(root_url)
             IN  OneRowEach(result, entries)
          /\ \A u \in Subtree(root_url) :
                /\ \E k \in DOMAIN fetched : fetched[k].url = u
                /\ u # root_url =>
                      \E k \in DOMAIN output :
                          output[k].kind = "dir" /\ \E j \in DOMAIN fetched :
                              /\ fetched[j].url = u
                              /\ fetched[j].via = output[k].text

\* C2 witness: the walk of /t/ returned after the request of /t/b/ failed,
\* with the rows of /t/a/ (visited before), of /t/c/ (visited after) and of
\* /t/ itself, and none of /t/b/.
C2_Witness ==
    /\ pc = "done" /\ collect_csv /\ root_url = ROOT_T
    /\ FailedPages = {<<"/", "t", "/", "b", "/">>}
    /\ {r.name : r \in Range(result)}
          = {<<"a", "1", ".", "t", "x", "t">>, <<"c", "1", ".", "t", "x", "t">>, <<"c", "2", ".", "t", "x", "t">>, <<"t", "1", ".", "t", "x", "t">>, <<"t", "2", ".", "t", "x", "t">>}
    /\ Len(result) = 5

\* C3: with CSV collection on, in a tree of listings where no request
\* fails, every call of print_directory_listing returns each row of the
\* files of its own listing and of the listings below it exactly as often as
\* the file was discovered (once per entry), and nothing else.
C3_EachRowExactlyOnce ==
    (collect_csv /\ FailedPages = {} /\ IsTree) =>
        \A k \in DOMAIN returned :
            LET entries == Discovered(returned[k].url)
            IN  OneRowEach(returned[k].value, entries)

\* C3 witness: the walk of /t/ returned, no request having failed, with the
\* seven rows of its three levels.
C3_Witness ==
    /\ pc = "done" /\ collect_csv /\ root_url = ROOT_T
    /\ FailedPages = {}
    /\ Len(result) = 7
    /\ \E k \in DOMAIN returned :
          returned[k].url = <<"/", "t", "/", "b", "/">> /\ Len(returned[k].value) = 2

\* C4: a step that fetches a page whose title lacks "Index of" (or which has
\* no title) prints exactly one skip notice, returns the empty result,
\* extracts nothing, asks for no metadata, and leaves the call without
\* starting another.
C4_NotAListingIsSkipped ==
    [][(/\ pc = "fetch"
        /\ Len(fetched') = Len(fetched) + 1
        /\ fetched'[Len(fetched')].outcome # "error"
        /\ ~(Site(Top.url).has_title /\ Contains(Site(Top.url).title, IndexOf)))
       =>
       (/\ fetched'[Len(fetched')].outcome = "skip"
        /\ output' = Append(output,
              [call |-> Top.call, kind |-> "skip", indent |-> Top.indent,
               text |-> Top.url])
        /\ Len(returned') = Len(returned) + 1
        /\ returned'[Len(returned')].call = Top.call
        /\ returned'[Len(returned')].value = <<>>
        /\ metaFetched' = metaFetched
        /\ Len(stack') = Len(stack) - 1
        /\ \A d \in DOMAIN stack' :
              /\ stack'[d].csv_data = stack[d].csv_data
              /\ stack'[d].items = stack[d].items)]_vars

\* C4 witness: below a listing, the page of /r/v1.2/, titled "index of
\* /r/v1.2", was fetched and skipped with one notice and an empty result.
C4_Witness ==
    /\ pc = "done" /\ root_url = ROOT_R
    /\ \E k \in DOMAIN fetched :
          /\ fetched[k].url = <<"/", "r", "/", "v", "1", ".", "2", "/">>
          /\ fetched[k].outcome = "skip"
          /\ Cardinality({j \in DOMAIN output : output[j].call = k}) = 1
          /\ \E j \in DOMAIN returned :
                returned[j].call = k /\ returned[j].value = <<>>

\* C5 (as claimed): an entry is a file exactly if the final path segment of
\* its resolved URL contains a period (README, without a period and without
\* a final slash, would be a directory).
C5_ClassifiedByPeriod ==
    \A it \in AllItems : ~it.is_dir <=> HasPeriod(FinalSegment(it.url))

\* C5 (amended): an entry is a directory exactly if its resolved URL ends
\* with a slash, whether or not its final path segment contains a period.
C5_ClassifiedByTrailingSlash ==
    \A it \in AllItems : it.is_dir <=> it.url[Len(it.url)] = "/"

\* C5 witness: a listing with the extension-less README (a file) and the
\* dotted v1.2/ (a directory) has been extracted.
C5_Witness ==
    /\ \E it \in AllItems : ~it.is_dir /\ it.url = <<"/", "r", "/", "R", "E", "A", "D", "M", "E">>
    /\ \E it \in AllItems : it.is_dir /\ it.url = <<"/", "r", "/", "v", "1", ".", "2", "/">>

\* C6 (as claimed): a malformed page raises nothing: when no metadata request
\* failed, the walk does not end in an uncaught exception.
C6_MalformedPageNeverRaises ==
    (\A k \in DOMAIN metaFetched : ~metaFetched[k].failed)
        => pc # "raised" /\ exception = "none"

\* C7: the lines a call prints for its entries are in the order directories
\* first, then names ascending by code point, whatever the order of the rows;
\* the entries of every listing being walked are in that order, they are the
\* extracted entries, and the call has printed them up to its position.
C7_PrintedInSortedOrder ==
    /\ \A c \in 1..(Len(fetched) + 1) : LinesInOrder(PrintedBy(c))
    /\ \A d \in DOMAIN stack :
          /\ ItemsInOrder(stack[d].items)
          /\ pc = "loop" \/ d < Len(stack) =>
                LET lines  == PrintedBy(stack[d].call)
                    items  == stack[d].items
                    served == Served(stack[d].url).items
                IN  /\ \A x \in Range(items) \cup Range(served) :
                          Count(items, x) = Count(served, x)
                    /\ Len(lines) = IF d < Len(stack) THEN stack[d].i
                                    ELSE stack[d].i - 1
                    /\ \A k \in DOMAIN lines :
                          /\ lines[k].text = items[k].name
                          /\ lines[k].kind = IF items[k].is_dir THEN "dir" ELSE "file"

\* C7 witness: the rows a.txt, sub/, B.txt were printed as sub/, B.txt, a.txt.
C7_Witness ==
    /\ pc = "done" /\ root_url = ROOT_R
    /\ listing.rows = <<HeaderRow, HeaderRow, RowA, RowSub, RowB>>
    /\ Len(PrintedBy(1)) = 3
    /\ PrintedBy(1)[1].text = <<"s", "u", "b", "/">>
    /\ PrintedBy(1)[2].text = <<"B", ".", "t", "x", "t">>
    /\ PrintedBy(1)[3].text = <<"a", ".", "t", "x", "t">>

\* C8: no entry named "Parent Directory" is among the entries, the printed
\* lines, the entries recursed into, the metadata requests or the CSV rows.
C8_NoParentDirectory ==
    /\ \A it \in AllItems : it.name # ParentDirectory
    /\ \A k \in DOMAIN output : output[k].text # ParentDirectory
    /\ \A k \in DOMAIN fetched : fetched[k].via # ParentDirectory
    /\ \A d \in DOMAIN stack : stack[d].via # ParentDirectory
    /\ \A k \in DOMAIN metaFetched : metaFetched[k].name # ParentDirectory
    /\ \A r \in AllRows : r.name # ParentDirectory

\* C8 witness: a listing whose last data row is the Parent Directory row,
\* behind two entries, was walked to its end.
C8_Witness ==
    /\ pc = "done" /\ root_url = ROOT_R /\ collect_csv
    /\ listing.rows = <<HeaderRow, HeaderRow, RowSub, RowA, RowParent>>
    /\ Len(PrintedBy(1)) = 2
    /\ Len(result) = 2

\* C9 (as claimed): the URL requested when recursing into a directory entry
\* is the entry's own resolved URL, and it ends with a slash.
C9_RecursesIntoEntryURL ==
    \A k \in DOMAIN fetched :
        fetched[k].call > 1 =>
            /\ fetched[k].url = fetched[k].entry_url
            /\ fetched[k].url[Len(fetched[k].url)] = "/"

\* C10 (as claimed): the rows a call returns are in the order of the lines
\* printed, during the call, for the files they describe.
C10_RowsInPrintedOrder ==
    \A k \in DOMAIN returned :
        collect_csv =>
            LET isFile(line) == line.kind = "file"
                lines == SelectSeq(SubSeq(output, returned[k].out_from + 1,
                                          returned[k].out_to), isFile)
            IN  /\ Len(lines) = Len(returned[k].value)
                /\ \A i \in DOMAIN lines : lines[i].text = returned[k].value[i].name

=============================================================================
